---- MODULE Spec2Model ----
(***************************************************************************)
(* Model of the cell scanner: main.py (process_ndpi, process_image) and    *)
(* Detectors.py (ScanResult, Singleton, the three detectors).              *)
(*                                                                         *)
(* Numbers.  Confidences and the two thresholds are exact rationals        *)
(* [num, den] with den > 0; box coordinates and sizes are integers.  The   *)
(* comparisons of the code are made on the exact values.  A Counter is a   *)
(* function from the labels it holds to their counts.  An image is known   *)
(* to the program only through what the four models answer on it, so an    *)
(* image is the record of those answers.                                   *)
(***************************************************************************)
EXTENDS Integers, Sequences, FiniteSets, TLC

VARIABLES
    pc,         \* "start" | "loop" | "returned" | "raised" | "image" | "fold"
    ndpiFile,   \* the path given to process_ndpi and what the file system holds there
    save,       \* the save argument of process_ndpi
    height,     \* loop variable of main.py:26
    width,      \* loop variable of main.py:27
    summary,    \* the running ScanResult of process_ndpi
    tiles,      \* the crops made so far by the running process_ndpi, in order
    calls,      \* process_image invocations since the current call began
    image,      \* the image last handed to process_image
    gate,       \* what hasGoodDensity answered in the last process_image
    result,     \* the ScanResult the last process_image returned
    classified, \* the classify calls of the last WhiteBloodCellDetector.detect
    detectors,  \* the three instances the last process_image obtained
    instances,  \* Singleton._instances
    built,      \* every construction (model load) made so far, in order
    saved,      \* the running process_ndpi wrote its summary file
    batch,      \* per-tile results waiting to be folded
    folded      \* the indices of batch already folded into summary

vars == <<pc, ndpiFile, save, height, width, summary, tiles, calls, image, gate,
          result, classified, detectors, instances, built, saved, batch, folded>>

-----------------------------------------------------------------------------
(* Bounds of the model *)

MaxTiles == 2   \* a slide has at most MaxTiles tiles along each axis

MaxDet == 3     \* a detector returns at most MaxDet boxes on one image

MaxCand == 2    \* the classifier returns at most MaxCand candidates on one crop

MaxBatch == 3   \* at most MaxBatch per-tile results are folded in one batch

-----------------------------------------------------------------------------
(* Program constants *)

TILE == 512

CLASSIFY_SIZE == 224

DETECTION_SIZE == 512

WBC_CONFIDENCE_THRESHOLD == [num |-> 25, den |-> 100]

WBC_IMAGE_SIZE_RATIO_THRESHOLD == [num |-> 5, den |-> 10]

RBC_CONFIDENCE_THRESHOLD == [num |-> 4, den |-> 10]

RBC_IMAGE_SIZE_RATIO_THRESHOLD == [num |-> 7, den |-> 10]

DENSITY_MODEL == "models/blood_smear_model_Oct20.pt"

WBC_MODELS == <<"models/wbc-detection-Feb24.pt", "models/wbc-classification-Sep23.pt", FALSE>>

RBC_MODELS == <<"models/rbc-detection-Sep12.pt", FALSE>>

\* The label table of the classifier model (r.names), by class index.
names == [c \in {0, 1} |-> IF c = 0 THEN "Lymphocyte" ELSE "Neutrophil"]

-----------------------------------------------------------------------------
(* Exact arithmetic *)

Max(a, b) == IF a >= b THEN a ELSE b

Min(a, b) == IF a <= b THEN a ELSE b

\* a < b for rationals with positive denominators
Less(a, b) == a.num * b.den < b.num * a.den

\* 1 / r for a positive rational
Inverse(r) == [num |-> r.den, den |-> r.num]

-----------------------------------------------------------------------------
(* ScanResult and Counter *)

EmptyCounter == [l \in {} |-> 0]

Get(c, l) == IF l \in DOMAIN c THEN c[l] ELSE 0

\* wbcs[name] += 1
Incr(c, l) == [k \in DOMAIN c \cup {l} |-> Get(c, k) + (IF k = l THEN 1 ELSE 0)]

\* Counter.__iadd__ with the counts of other replacing those of self
CounterOverwrite(self, other) ==
    [k \in DOMAIN self \cup DOMAIN other |-> IF k \in DOMAIN other THEN other[k] ELSE self[k]]

\* Counter.__iadd__: add the counts of other, keep the positive ones
CounterIAdd(self, other) ==
    LET added == [k \in DOMAIN self \cup DOMAIN other |-> Get(self, k) + Get(other, k)]
    IN  [k \in {x \in DOMAIN added : added[x] > 0} |-> added[k]]

ScanResult(wbc, rbc) == [wbc |-> wbc, rbc |-> rbc]

EmptyResult == ScanResult(EmptyCounter, 0)

\* summary.wbc += result.wbc ; summary.rbc += result.rbc
Merge(total, res) == ScanResult(CounterIAdd(total.wbc, res.wbc), total.rbc + res.rbc)

-----------------------------------------------------------------------------
(* The filters of the two detectors *)

\* ratio < width / height < 1 / ratio; a zero height gives inf or nan, for
\* which the chained comparison is false
RatioInside(w, h, ratio) ==
    IF h = 0 THEN FALSE
    ELSE /\ Less(ratio, [num |-> w, den |-> h])
         /\ Less([num |-> w, den |-> h], Inverse(ratio))

AcceptNotStrict(conf, xywh, threshold, ratio) ==
    /\ ~Less(conf, threshold)
    /\ RatioInside(xywh[3], xywh[4], ratio)

AcceptWideBand(conf, xywh, threshold, ratio) ==
    /\ Less(threshold, conf)
    /\ xywh[4] # 0
    /\ ~Less([num |-> xywh[3], den |-> xywh[4]], ratio)
    /\ ~Less(Inverse(ratio), [num |-> xywh[3], den |-> xywh[4]])

\* conf > CONFIDENCE_THRESHOLD and (RATIO < width / height < 1 / RATIO)
Accept(conf, xywh, threshold, ratio) ==
    /\ Less(threshold, conf)
    /\ RatioInside(xywh[3], xywh[4], ratio)

RbcAcceptNotStrict(d) ==
    AcceptNotStrict(d.conf, d.xywh, RBC_CONFIDENCE_THRESHOLD, RBC_IMAGE_SIZE_RATIO_THRESHOLD)

RbcAccept(d) == Accept(d.conf, d.xywh, RBC_CONFIDENCE_THRESHOLD, RBC_IMAGE_SIZE_RATIO_THRESHOLD)

WbcAcceptWideBand(d) ==
    AcceptWideBand(d.conf, d.xywh, WBC_CONFIDENCE_THRESHOLD, WBC_IMAGE_SIZE_RATIO_THRESHOLD)

WbcAccept(d) == Accept(d.conf, d.xywh, WBC_CONFIDENCE_THRESHOLD, WBC_IMAGE_SIZE_RATIO_THRESHOLD)

\* RedBloodCellDetector.detect: the loop over the boxes of the model
RECURSIVE RbcLoop(_, _, _)
RbcLoop(boxes, i, rbc) ==
    IF i > Len(boxes) THEN rbc
    ELSE RbcLoop(boxes, i + 1, IF RbcAccept(boxes[i]) THEN rbc + 1 ELSE rbc)

RbcDetect(img) == RbcLoop(img.rboxes, 1, 0)

-----------------------------------------------------------------------------
(* WhiteBloodCellDetector.classify *)

\* The code takes the square root of this sum; the root is increasing, so
\* the order of the distances is the order of their squares.
distance(p1, p2) == (p1[1] - p2[1]) * (p1[1] - p2[1]) + (p1[2] - p2[2]) * (p1[2] - p2[2])

center == <<CLASSIFY_SIZE \div 2, CLASSIFY_SIZE \div 2>>

closest_index_last(cords) ==
    LET distances == [i \in 1..Len(cords) |-> distance(cords[i].xywh, center)]
    IN  CHOOSE i \in 1..Len(cords) :
            /\ \A j \in 1..Len(cords) : distances[i] <= distances[j]
            /\ \A j \in (i + 1)..Len(cords) : distances[j] # distances[i]

\* distances.index(min(distances)): the first index holding the minimum
closest_index(cords) ==
    LET distances == [i \in 1..Len(cords) |-> distance(cords[i].xywh, center)]
    IN  CHOOSE i \in 1..Len(cords) :
            /\ \A j \in 1..Len(cords) : distances[i] <= distances[j]
            /\ \A j \in 1..(i - 1) : distances[j] # distances[i]

get_wbc_closest_to_center(cords) == cords[closest_index(cords)]

CropBoxUnclamped(xywh) ==
    <<xywh[1] - CLASSIFY_SIZE \div 2, xywh[2] - CLASSIFY_SIZE \div 2,
      xywh[1] + CLASSIFY_SIZE \div 2, xywh[2] + CLASSIFY_SIZE \div 2>>

\* (left, top, right, bottom) of Detectors.py:66-69
CropBox(xywh) ==
    <<Max(xywh[1] - CLASSIFY_SIZE \div 2, 0),
      Max(xywh[2] - CLASSIFY_SIZE \div 2, 0),
      Min(xywh[1] + CLASSIFY_SIZE \div 2, DETECTION_SIZE),
      Min(xywh[2] + CLASSIFY_SIZE \div 2, DETECTION_SIZE)>>

\* classify(image, xywh), cands being what cmodel answers on the crop
classify(xywh, cands) ==
    [box   |-> CropBox(xywh),
     label |-> IF Len(cands) = 0 THEN "Unknown"
               ELSE names[get_wbc_closest_to_center(cands).cls]]

\* WhiteBloodCellDetector.detect: the loop over the boxes of dmodel.  acc
\* holds the Counter wbcs and the classify calls made so far.
RECURSIVE WbcLoop(_, _, _)
WbcLoop(img, i, acc) ==
    IF i > Len(img.wboxes) THEN acc
    ELSE IF WbcAccept(img.wboxes[i])
         THEN LET c == classify(img.wboxes[i].xywh, img.cout[i])
              IN  WbcLoop(img, i + 1,
                          [wbcs  |-> Incr(acc.wbcs, c.label),
                           calls |-> Append(acc.calls,
                                            [index |-> i,
                                             xywh  |-> img.wboxes[i].xywh,
                                             box   |-> c.box,
                                             cands |-> img.cout[i],
                                             label |-> c.label])])
         ELSE WbcLoop(img, i + 1, acc)

WbcDetect(img) == WbcLoop(img, 1, [wbcs |-> EmptyCounter, calls |-> <<>>])

\* BloodDensityDetector.hasGoodDensity
hasGoodDensity(img) == img.density = "Good"

-----------------------------------------------------------------------------
(* Singleton and process_image *)

SingletonCallUncached(reg, cls, args) ==
    [instances |-> [c \in DOMAIN reg.instances \cup {cls} |->
                       IF c = cls THEN Len(reg.built) + 1 ELSE reg.instances[c]],
     built     |-> Append(reg.built, [cls |-> cls, args |-> args])]

\* Singleton.__call__: reg holds _instances and the constructions made so
\* far; an instance is known by the position of its construction in built.
SingletonCall(reg, cls, args) ==
    IF cls \notin DOMAIN reg.instances
    THEN [instances |-> [c \in DOMAIN reg.instances \cup {cls} |->
                            IF c = cls THEN Len(reg.built) + 1 ELSE reg.instances[c]],
          built     |-> Append(reg.built, [cls |-> cls, args |-> args])]
    ELSE reg

GateEnforced(good) == ~good

\* not bloodDensityDetector.hasGoodDensity(image) and False
GateBlocks(good) == ~good /\ FALSE

\* process_image(image), started with the registry reg.  detectors names
\* the instance each constructor call returned, 0 for a call not made.
process_image(reg, img) ==
    LET r1   == SingletonCall(reg, "BloodDensityDetector", <<DENSITY_MODEL>>)
        good == hasGoodDensity(img)
        r2   == SingletonCall(r1, "WhiteBloodCellDetector", WBC_MODELS)
        r3   == SingletonCall(r2, "RedBloodCellDetector", RBC_MODELS)
        wbc  == WbcDetect(img)
    IN  IF GateBlocks(good)
        THEN [reg        |-> r1,
              gate       |-> good,
              detectors  |-> [density |-> r1.instances["BloodDensityDetector"],
                              wbc |-> 0, rbc |-> 0],
              classified |-> <<>>,
              result     |-> ScanResult(EmptyCounter, 0)]
        ELSE [reg        |-> r3,
              gate       |-> good,
              detectors  |-> [density |-> r1.instances["BloodDensityDetector"],
                              wbc     |-> r2.instances["WhiteBloodCellDetector"],
                              rbc     |-> r3.instances["RedBloodCellDetector"]],
              classified |-> wbc.calls,
              result     |-> ScanResult(wbc.wbcs, RbcDetect(img))]

-----------------------------------------------------------------------------
(* Inputs *)

Det(c, x, y, w, h) == [conf |-> c, xywh |-> <<x, y, w, h>>]

Cand(x, y, cls) == [xywh |-> <<x, y, 60, 60>>, cls |-> cls]

Img(density, wboxes, cout, rboxes) ==
    [density |-> density, wboxes |-> wboxes, cout |-> cout, rboxes |-> rboxes]

SeqsUpTo(S, n) == UNION {[1..k -> S] : k \in 0..n}

Conf(n, d) == [num |-> n, den |-> d]

BlankImage == Img("Good", <<>>, <<>>, <<>>)

\* What the tiles of a slide can hold.
TileImages ==
    { BlankImage,
      Img("Poor",
          <<Det(Conf(9, 10), 256, 256, 40, 40)>>,
          <<(<<Cand(112, 112, 0)>>)>>,
          <<Det(Conf(9, 10), 100, 100, 10, 10), Det(Conf(1, 10), 300, 300, 10, 10)>>),
      Img("Good",
          <<Det(Conf(1, 10), 50, 50, 10, 10), Det(Conf(9, 10), 30, 500, 40, 50)>>,
          <<(<<>>), (<<>>)>>,
          <<Det(Conf(5, 10), 200, 200, 10, 10)>>),
      Img("Poor",
          <<Det(Conf(9, 10), 5, 300, 30, 30), Det(Conf(3, 10), 400, 100, 20, 30)>>,
          <<(<<Cand(100, 112, 1), Cand(124, 112, 0)>>), (<<Cand(112, 112, 0)>>)>>,
          <<>>) }

\* Slide sizes: a whole number of tiles, or a last tile that is partial.
Dims == UNION {{k * TILE, k * TILE - 212} : k \in 1..MaxTiles}

Files ==
    {[isfile |-> f, ext |-> e, tiff |-> t, size |-> <<TILE, TILE>>] :
        f \in BOOLEAN, e \in {".ndpi", ".tif"}, t \in BOOLEAN}
    \cup
    {[isfile |-> TRUE, ext |-> ".ndpi", tiff |-> TRUE, size |-> <<w, h>>] :
        w \in Dims, h \in Dims}

\* Red-cell boxes around the two limits of the filter.
RbcBoxes ==
    {Det(c, 256, 256, wh[1], wh[2]) :
        c \in {Conf(2, 5), Conf(41, 100)},
        wh \in {<<7, 10>>, <<8, 10>>, <<10, 7>>, <<10, 8>>, <<5, 20>>, <<10, 0>>}}

RbcImages == {Img("Good", <<>>, <<>>, r) : r \in SeqsUpTo(RbcBoxes, MaxDet)}

\* White-cell boxes around the two limits of the filter.
WbcBoxes ==
    {Det(c, 256, 256, wh[1], wh[2]) :
        c \in {Conf(1, 4), Conf(26, 100)},
        wh \in {<<10, 20>>, <<11, 20>>, <<20, 10>>, <<10, 10>>}}

WbcFilterImages ==
    {Img("Good", b, [i \in 1..Len(b) |-> <<Cand(112, 112, i % 2)>>], <<>>) :
        b \in SeqsUpTo(WbcBoxes, MaxDet)}
    \cup
    {Img("Poor", b, [i \in 1..Len(b) |-> <<>>], <<>>) : b \in SeqsUpTo(WbcBoxes, MaxDet)}

\* Box centres at and around the places where the crop starts to be clamped.
Edge == {0, 1, 111, 112, 113, 256, 399, 400, 401, 511, 512}

WbcCropImages ==
    {Img("Good", <<Det(Conf(9, 10), x, y, 40, 40)>>, <<(<<Cand(112, 112, 1)>>)>>, <<>>) :
        x \in Edge, y \in Edge}

Cands ==
    {Cand(p[1], p[2], c) :
        p \in {<<112, 112>>, <<100, 112>>, <<124, 112>>, <<112, 124>>, <<90, 90>>},
        c \in {0, 1}}

WbcClosestImages ==
    {Img("Good", <<Det(Conf(9, 10), 256, 256, 40, 40)>>, <<co>>, <<>>) :
        co \in SeqsUpTo(Cands, MaxCand)}

Images == RbcImages \cup WbcFilterImages \cup WbcCropImages \cup WbcClosestImages

Results == {process_image([instances |-> EmptyCounter, built |-> <<>>], img).result :
               img \in TileImages}

-----------------------------------------------------------------------------
(* process_ndpi *)

InRangeInclusive(v, stop) == v <= stop

\* v is produced by range(0, stop, 512)
InRange(v, stop) == v < stop

\* Image.crop(box) on an image of the given size, box being (left, upper,
\* right, lower): the pixels of the image that the crop reads.  What lies
\* outside the image is filled in, not read.
crop(size, box) ==
    [x0 |-> Max(box[1], 0), x1 |-> Min(box[3], size[1]),
     y0 |-> Max(box[2], 0), y1 |-> Min(box[4], size[2])]

Init ==
    /\ pc = "start"
    /\ ndpiFile = [isfile |-> FALSE, ext |-> ".ndpi", tiff |-> FALSE, size |-> <<TILE, TILE>>]
    /\ save = FALSE
    /\ height = 0
    /\ width = 0
    /\ summary = EmptyResult
    /\ tiles = <<>>
    /\ calls = 0
    /\ image = BlankImage
    /\ gate = TRUE
    /\ result = EmptyResult
    /\ classified = <<>>
    /\ detectors = [density |-> 0, wbc |-> 0, rbc |-> 0]
    /\ instances = EmptyCounter
    /\ built = <<>>
    /\ saved = FALSE
    /\ batch = <<>>
    /\ folded = {}

\* main.py:10-12: the path is no file or has another extension
process_ndpi_invalid ==
    /\ pc \in {"start", "returned"}
    /\ \E f \in Files, s \in BOOLEAN :
        /\ ~f.isfile \/ f.ext # ".ndpi"
        /\ ndpiFile' = f
        /\ save' = s
    /\ summary' = EmptyResult
    /\ tiles' = <<>>
    /\ calls' = 0
    /\ saved' = FALSE
    /\ pc' = "returned"
    /\ UNCHANGED <<height, width, image, gate, result, classified, detectors,
                   instances, built, batch, folded>>

\* main.py:14-18: tifffile.TiffFile raises on a file that is no TIFF file,
\* and nothing in process_ndpi catches it
process_ndpi_unreadable ==
    /\ pc \in {"start", "returned"}
    /\ \E f \in Files, s \in BOOLEAN :
        /\ f.isfile /\ f.ext = ".ndpi" /\ ~f.tiff
        /\ ndpiFile' = f
        /\ save' = s
    /\ summary' = EmptyResult
    /\ tiles' = <<>>
    /\ calls' = 0
    /\ saved' = FALSE
    /\ pc' = "raised"
    /\ UNCHANGED <<height, width, image, gate, result, classified, detectors,
                   instances, built, batch, folded>>

\* main.py:14-27: the slide is read and the two loops start (a slide has at
\* least one pixel, so both ranges hold 0)
process_ndpi_read ==
    /\ pc \in {"start", "returned"}
    /\ \E f \in Files, s \in BOOLEAN :
        /\ f.isfile /\ f.ext = ".ndpi" /\ f.tiff
        /\ ndpiFile' = f
        /\ save' = s
    /\ summary' = EmptyResult
    /\ tiles' = <<>>
    /\ calls' = 0
    /\ saved' = FALSE
    /\ height' = 0
    /\ width' = 0
    /\ pc' = "loop"
    /\ UNCHANGED <<image, gate, result, classified, detectors, instances, built,
                   batch, folded>>

\* main.py:28-34, one pass of the inner loop, and main.py:36-41 after the last
process_tile ==
    /\ pc = "loop"
    /\ \E img \in TileImages :
        LET box == <<height, width, height + TILE, width + TILE>>
            out == process_image([instances |-> instances, built |-> built], img)
        IN  /\ image' = img
            /\ tiles' = Append(tiles, [height |-> height, width |-> width, box |-> box,
                                       read |-> crop(ndpiFile.size, box)])
            /\ gate' = out.gate
            /\ result' = out.result
            /\ classified' = out.classified
            /\ detectors' = out.detectors
            /\ instances' = out.reg.instances
            /\ built' = out.reg.built
            /\ summary' = Merge(summary, out.result)
    /\ calls' = calls + 1
    /\ IF InRange(width + TILE, ndpiFile.size[1])
       THEN /\ width' = width + TILE
            /\ UNCHANGED <<height, pc, saved>>
       ELSE IF InRange(height + TILE, ndpiFile.size[2])
            THEN /\ height' = height + TILE
                 /\ width' = 0
                 /\ UNCHANGED <<pc, saved>>
            ELSE /\ saved' = save
                 /\ pc' = "returned"
                 /\ UNCHANGED <<height, width>>
    /\ UNCHANGED <<ndpiFile, save, batch, folded>>

Next ==
    \/ process_ndpi_invalid
    \/ process_ndpi_unreadable
    \/ process_ndpi_read
    \/ process_tile

Spec == Init /\ [][Next]_vars

-----------------------------------------------------------------------------
(* process_image on one image *)

InitImage ==
    /\ pc = "image"
    /\ image \in Images
    /\ ndpiFile = [isfile |-> FALSE, ext |-> ".ndpi", tiff |-> FALSE, size |-> <<TILE, TILE>>]
    /\ save = FALSE
    /\ height = 0
    /\ width = 0
    /\ summary = EmptyResult
    /\ tiles = <<>>
    /\ calls = 0
    /\ gate = TRUE
    /\ result = EmptyResult
    /\ classified = <<>>
    /\ detectors = [density |-> 0, wbc |-> 0, rbc |-> 0]
    /\ instances = EmptyCounter
    /\ built = <<>>
    /\ saved = FALSE
    /\ batch = <<>>
    /\ folded = {}

\* main.py:44-56, called on the image held in image
process_image_call ==
    /\ pc = "image"
    /\ LET out == process_image([instances |-> instances, built |-> built], image)
       IN  /\ gate' = out.gate
           /\ result' = out.result
           /\ classified' = out.classified
           /\ detectors' = out.detectors
           /\ instances' = out.reg.instances
           /\ built' = out.reg.built
    /\ calls' = calls + 1
    /\ pc' = "returned"
    /\ UNCHANGED <<ndpiFile, save, height, width, summary, tiles, image, saved, batch, folded>>

SpecImage == InitImage /\ [][process_image_call]_vars

-----------------------------------------------------------------------------
(* The fold of main.py:32-33 over a batch of tile results, in any order *)

InitMerge ==
    /\ pc = "fold"
    /\ batch \in SeqsUpTo(Results, MaxBatch)
    /\ folded = {}
    /\ summary = EmptyResult
    /\ ndpiFile = [isfile |-> FALSE, ext |-> ".ndpi", tiff |-> FALSE, size |-> <<TILE, TILE>>]
    /\ save = FALSE
    /\ height = 0
    /\ width = 0
    /\ tiles = <<>>
    /\ calls = 0
    /\ image = BlankImage
    /\ gate = TRUE
    /\ result = EmptyResult
    /\ classified = <<>>
    /\ detectors = [density |-> 0, wbc |-> 0, rbc |-> 0]
    /\ instances = EmptyCounter
    /\ built = <<>>
    /\ saved = FALSE

\* main.py:32-33 for one result of the batch not folded yet
fold ==
    /\ pc = "fold"
    /\ \E i \in (1..Len(batch)) \ folded :
        /\ result' = batch[i]
        /\ summary' = Merge(summary, batch[i])
        /\ folded' = folded \cup {i}
    /\ UNCHANGED <<pc, ndpiFile, save, height, width, tiles, calls, image, gate,
                   classified, detectors, instances, built, saved, batch>>

SpecMerge == InitMerge /\ [][fold]_vars

-----------------------------------------------------------------------------
(* Properties of process_ndpi *)

Valid(f) == f.isfile /\ f.ext = ".ndpi" /\ f.tiff

\* {0, 512, 1024, ...} below n
Steps(n) == {k * 512 : k \in 0..((n - 1) \div 512)}

Origins(k) == <<tiles[k].height, tiles[k].width>>

\* C1: a finished process_ndpi on a slide of width W and height H has made
\* one tile for every origin (row, column) with row in {0, 512, ...} below H
\* and column in {0, 512, ...} below W, no tile twice and no other tile, and
\* has called process_image once per tile, ceil(H/512) * ceil(W/512) times;
\* while it runs, the tiles made so far are among these, none twice.  A
\* 1024x1024 slide gives the 4 tiles (0,0), (0,512), (512,0), (512,512).
C1_TileGrid ==
    (pc \in {"loop", "returned"} /\ Valid(ndpiFile)) =>
        LET W == ndpiFile.size[1]
            H == ndpiFile.size[2]
            grid == Steps(H) \X Steps(W)
        IN  /\ \A k \in 1..Len(tiles) : Origins(k) \in grid
            /\ \A j, k \in 1..Len(tiles) : Origins(j) = Origins(k) => j = k
            /\ calls = Len(tiles)
            /\ pc = "returned" =>
                /\ {Origins(k) : k \in 1..Len(tiles)} = grid
                /\ calls = ((H + 511) \div 512) * ((W + 511) \div 512)
                /\ (W = 1024 /\ H = 1024) =>
                       {Origins(k) : k \in 1..Len(tiles)}
                           = {<<0, 0>>, <<0, 512>>, <<512, 0>>, <<512, 512>>}

C1_Witness ==
    /\ pc = "returned"
    /\ ndpiFile.size = <<1024, 1024>>
    /\ Len(tiles) = 4
    /\ calls = 4

IsEmpty(r) == r.x1 <= r.x0 \/ r.y1 <= r.y0

SamePixels(a, b) == (IsEmpty(a) /\ IsEmpty(b)) \/ a = b

Reads(r, x, y) == r.x0 <= x /\ x < r.x1 /\ r.y0 <= y /\ y < r.y1

\* One coordinate of every run of pixels that no tile border and no slide
\* border separates.
Probes(n) == {x \in Steps(n) \cup {k + 511 : k \in Steps(n)} \cup {n - 1} : x < n}

\* C2: the tile cropped for origin (row, column) reads the slide pixels with
\* vertical coordinate in [row, min(row + 512, H)) and horizontal coordinate
\* in [column, min(column + 512, W)), and the tiles of a finished slide read
\* every slide pixel exactly once.
C2_CropRegion ==
    (pc \in {"loop", "returned"} /\ Valid(ndpiFile)) =>
        LET W == ndpiFile.size[1]
            H == ndpiFile.size[2]
        IN  /\ \A k \in 1..Len(tiles) :
                   SamePixels(tiles[k].read,
                              [x0 |-> tiles[k].width,
                               x1 |-> Min(tiles[k].width + 512, W),
                               y0 |-> tiles[k].height,
                               y1 |-> Min(tiles[k].height + 512, H)])
            /\ pc = "returned" =>
                   \A x \in Probes(W), y \in Probes(H) :
                       Cardinality({k \in 1..Len(tiles) : Reads(tiles[k].read, x, y)}) = 1

\* C4: process_ndpi on an input that is missing, is no file, has not the
\* slide extension or is no readable slide file raises nothing and returns
\* the empty ScanResult.
C4_SoftFailure ==
    (pc \in {"returned", "raised"} /\ ~Valid(ndpiFile)) =>
        /\ pc = "returned"
        /\ summary = EmptyResult

\* C7: process_image evaluates the density gate, runs the white-cell and the
\* red-cell path whatever the gate says, and returns their counts.
C7_GateNeverBlocks ==
    calls > 0 =>
        /\ gate = (image.density = "Good")
        /\ detectors.density # 0 /\ detectors.wbc # 0 /\ detectors.rbc # 0
        /\ result = ScanResult(WbcDetect(image).wbcs, RbcDetect(image))
        /\ Len(classified) = Len(WbcDetect(image).calls)

C7_Witness ==
    /\ calls > 0
    /\ ~gate
    /\ image.density = "Poor"
    /\ result.rbc = 1
    /\ result.wbc = [l \in {"Lymphocyte"} |-> 1]

Combinations ==
    [density |-> [cls |-> "BloodDensityDetector", args |-> <<DENSITY_MODEL>>],
     wbc     |-> [cls |-> "WhiteBloodCellDetector", args |-> WBC_MODELS],
     rbc     |-> [cls |-> "RedBloodCellDetector", args |-> RBC_MODELS]]

\* C10: over any sequence of process_ndpi and process_image calls every
\* (model, parameters) combination is constructed at most once, and once
\* process_image has run, each of the three combinations has been
\* constructed exactly once and the instance each request returns is the one
\* that first construction built.
C10_SingletonOnce ==
    /\ \A i, j \in 1..Len(built) : built[i] = built[j] => i = j
    /\ Len(built) > 0 =>
           \A d \in {"density", "wbc", "rbc"} :
               /\ Cardinality({i \in 1..Len(built) : built[i] = Combinations[d]}) = 1
               /\ detectors[d] \in 1..Len(built)
               /\ built[detectors[d]] = Combinations[d]
               /\ instances[Combinations[d].cls] = detectors[d]

C10_Witness ==
    /\ pc = "loop"
    /\ calls = 0
    /\ Len(built) = 3
    /\ detectors = [density |-> 1, wbc |-> 2, rbc |-> 3]

-----------------------------------------------------------------------------
(* Properties of the merge *)

RECURSIVE SumWbc(_, _)
SumWbc(S, l) ==
    IF S = {} THEN 0
    ELSE LET i == CHOOSE x \in S : TRUE
         IN  Get(batch[i].wbc, l) + SumWbc(S \ {i}, l)

RECURSIVE SumRbc(_)
SumRbc(S) ==
    IF S = {} THEN 0
    ELSE LET i == CHOOSE x \in S : TRUE
         IN  batch[i].rbc + SumRbc(S \ {i})

RECURSIVE FoldInOrder(_, _)
FoldInOrder(total, i) ==
    IF i > Len(batch) THEN total ELSE FoldInOrder(Merge(total, batch[i]), i + 1)

BatchLabels == UNION {DOMAIN batch[i].wbc : i \in 1..Len(batch)}

\* C3: whatever the order in which the results of a batch are folded into an
\* empty ScanResult, after each fold the running total is the pointwise sum
\* of the results folded so far (a label is held exactly when its sum is
\* positive, the red-cell count is the sum of the red-cell counts), and once
\* all are folded the total is the one the row-major order gives.
C3_MergeOrder ==
    pc = "fold" =>
        /\ DOMAIN summary.wbc = {l \in BatchLabels : SumWbc(folded, l) > 0}
        /\ \A l \in DOMAIN summary.wbc : summary.wbc[l] = SumWbc(folded, l)
        /\ summary.rbc = SumRbc(folded)
        /\ folded = 1..Len(batch) => summary = FoldInOrder(EmptyResult, 1)

C3_Witness ==
    /\ pc = "fold"
    /\ Len(batch) = 3
    /\ folded = {1, 3}
    /\ result = batch[1]
    /\ batch[1] # batch[3]
    /\ batch[1].wbc # EmptyCounter /\ batch[3].wbc # EmptyCounter
    /\ summary.rbc = 2

-----------------------------------------------------------------------------
(* Properties of the detectors *)

\* confidence > 0.4 and 0.7 < width/height < 1/0.7, on the exact values
RbcCounted(d) ==
    /\ 10 * d.conf.num > 4 * d.conf.den
    /\ d.xywh[4] > 0
    /\ 10 * d.xywh[3] > 7 * d.xywh[4]
    /\ 7 * d.xywh[3] < 10 * d.xywh[4]

\* confidence > 0.25 and 0.5 < width/height < 2.0, on the exact values
WbcAccepted(d) ==
    /\ 4 * d.conf.num > d.conf.den
    /\ d.xywh[4] > 0
    /\ 2 * d.xywh[3] > d.xywh[4]
    /\ d.xywh[3] < 2 * d.xywh[4]

\* C5: RedBloodCellDetector.detect returns the number of boxes of the model
\* with confidence > 0.4 and 0.7 < width/height < 1/0.7; a box at one of the
\* three limits is not counted.
C5_RbcCount ==
    pc = "returned" =>
        result.rbc = Cardinality({i \in 1..Len(image.rboxes) : RbcCounted(image.rboxes[i])})

C5_Witness ==
    /\ pc = "returned"
    /\ Len(image.rboxes) = 3
    /\ image.rboxes[1] = Det(Conf(2, 5), 256, 256, 8, 10)
    /\ image.rboxes[2] = Det(Conf(41, 100), 256, 256, 7, 10)
    /\ image.rboxes[3] = Det(Conf(41, 100), 256, 256, 10, 8)
    /\ result.rbc = 1

Labels == {names[c] : c \in DOMAIN names} \cup {"Unknown"}

RECURSIVE SumCounts(_, _)
SumCounts(c, S) ==
    IF S = {} THEN 0
    ELSE LET l == CHOOSE x \in S : TRUE
         IN  c[l] + SumCounts(c, S \ {l})

\* C6: WhiteBloodCellDetector.detect classifies the boxes with confidence >
\* 0.25 and 0.5 < width/height < 2.0, each once, and no other box; a label's
\* count is the number of classified boxes that got that label, and the
\* counts add up to the number of accepted boxes.
C6_WbcClassified ==
    pc = "returned" =>
        LET accepted == {i \in 1..Len(image.wboxes) : WbcAccepted(image.wboxes[i])}
        IN  /\ {classified[k].index : k \in 1..Len(classified)} = accepted
            /\ Len(classified) = Cardinality(accepted)
            /\ DOMAIN result.wbc \subseteq Labels
            /\ \A l \in Labels :
                   Get(result.wbc, l)
                       = Cardinality({k \in 1..Len(classified) : classified[k].label = l})
            /\ SumCounts(result.wbc, DOMAIN result.wbc) = Cardinality(accepted)

C6_Witness ==
    /\ pc = "returned"
    /\ Len(image.wboxes) = 3
    /\ image.wboxes[1] = Det(Conf(1, 4), 256, 256, 10, 10)
    /\ image.wboxes[2] = Det(Conf(26, 100), 256, 256, 11, 20)
    /\ image.wboxes[3] = Det(Conf(26, 100), 256, 256, 20, 10)
    /\ Len(classified) = 1
    /\ classified[1].index = 2
    /\ result.wbc = [l \in {"Lymphocyte"} |-> 1]

\* C8: classify gives "Unknown" when the classifier returns no candidate,
\* and otherwise the class name of the first candidate, in the classifier's
\* order, whose centre is at the least distance from (112, 112).
C8_ClosestLabel ==
    \A k \in 1..Len(classified) :
        LET cands == classified[k].cands
            d2(i) == (cands[i].xywh[1] - 112) * (cands[i].xywh[1] - 112)
                       + (cands[i].xywh[2] - 112) * (cands[i].xywh[2] - 112)
            nearest == {i \in 1..Len(cands) : \A j \in 1..Len(cands) : d2(i) <= d2(j)}
        IN  IF Len(cands) = 0
            THEN classified[k].label = "Unknown"
            ELSE \E i \in nearest :
                    /\ \A j \in nearest : i <= j
                    /\ classified[k].label = names[cands[i].cls]

C8_Witness ==
    /\ pc = "returned"
    /\ Len(classified) = 1
    /\ classified[1].cands = <<Cand(124, 112, 1), Cand(100, 112, 0)>>
    /\ classified[1].label = "Neutrophil"

====
